---- MODULE Spec2Model ----
(***************************************************************************)
(* Model of analysis/deep2_r23_o32/plotting/te_metal_plots.py:             *)
(* the Jiang et al. (2019) and Bian et al. (2018) calibrations and the     *)
(* two comparison routines built on them (specification Spec), and of the  *)
(* observing scripts find_nearby_bright_star.py (SpecStar) and             *)
(* generate_model_spectrum.py (SpecSpectrum).                              *)
(*                                                                         *)
(* Real numbers are exact rationals [n, d] in lowest terms (the code's     *)
(* float64 arithmetic without rounding).  NumPy values are tagged records: *)
(* a 0-d scalar, a 1-d array, or a raised exception.  The callers in the   *)
(* repository pass NumPy arrays (Column.data) to the calibrations, so the  *)
(* arguments are NumPy scalars and 1-d arrays.                             *)
(***************************************************************************)
EXTENDS Integers, Sequences, FiniteSets, TLC

\* jiang_coeff, bian_coeff: the module-level coefficient lists.
\* files: the tables on disk that the comparison routines read.
\* jiang_in: the caller's arrays passed to jiang_calibration.
\* bian_in: the caller's array passed to the two Bian calibrations.
\* call: the last call made, with its locals and its outcome.
\* env: the arguments and the surroundings of the observing scripts
\*      (the target list, the catalogue and image servers' answers, tab0).
\* disk: the files written by the observing scripts, by name.
\* pc: where the running main() of an observing script stands.
\* log: what that main() has done, one entry per pass of its loop.
VARIABLES jiang_coeff, bian_coeff, files, jiang_in, bian_in, call,
          env, disk, pc, log

vars == <<jiang_coeff, bian_coeff, files, jiang_in, bian_in, call,
          env, disk, pc, log>>

\* The state of the observing scripts (observing/*.py).
observing == <<env, disk, pc, log>>

\* The state of the calibration module (te_metal_plots.py) other than call.
plotting == <<jiang_coeff, bian_coeff, files, jiang_in, bian_in>>

(* ------------------------------------------------------------------ *)
(* Bounds of the model                                                  *)
(* ------------------------------------------------------------------ *)
MaxLen == 3
MaxRows == 2
MaxTargets == 3
MaxSources == 3
GridLen == 3

(* ------------------------------------------------------------------ *)
(* Exact rational arithmetic                                            *)
(* ------------------------------------------------------------------ *)
Abs(x) == IF x < 0 THEN -x ELSE x

RECURSIVE GCD(_, _)
GCD(a, b) == IF b = 0 THEN a ELSE GCD(b, a % b)

LCM(a, b) == (a \div GCD(a, b)) * b

Rat(n, d) ==
    LET g == GCD(Abs(n), Abs(d))
        s == IF d < 0 THEN -1 ELSE 1
    IN  [n |-> (s * n) \div g, d |-> (s * d) \div g]

RECURSIVE Pow10(_)
Pow10(k) == IF k = 0 THEN 1 ELSE 10 * Pow10(k - 1)

\* A decimal literal of the source: Dec(-24135, 3) is -24.135.
Dec(n, k) == Rat(n, Pow10(k))

Int2Rat(i) == Rat(i, 1)

RAdd(a, b) ==
    LET l == LCM(a.d, b.d)
    IN  Rat(a.n * (l \div a.d) + b.n * (l \div b.d), l)

RNeg(a) == [n |-> -a.n, d |-> a.d]

RSub(a, b) == RAdd(a, RNeg(b))

RMul(a, b) ==
    LET g1 == GCD(Abs(a.n), b.d)
        g2 == GCD(Abs(b.n), a.d)
    IN  Rat((a.n \div g1) * (b.n \div g2), (a.d \div g2) * (b.d \div g1))

RDiv(a, b) == RMul(a, Rat(b.d, b.n))

RLess(a, b) ==
    LET l == LCM(a.d, b.d)
    IN  a.n * (l \div a.d) < b.n * (l \div b.d)

(* ------------------------------------------------------------------ *)
(* NumPy values and element-wise operations with broadcasting           *)
(* ------------------------------------------------------------------ *)
Scalar(r) == [kind |-> "scalar", v |-> r]
Array(s) == [kind |-> "array", v |-> s]
Raise(e) == [kind |-> "error", exc |-> e]

IsError(x) == x.kind = "error"

\* Shape of the value: <<>> for a 0-d scalar, <<n>> for a 1-d array.
Shape(x) == IF x.kind = "scalar" THEN <<>> ELSE <<Len(x.v)>>

\* Variant: only equal lengths are accepted.
BroadcastStrict(la, lb) == la = lb

\* Two 1-d lengths broadcast together iff they are equal or one of them is 1.
BroadcastOK(la, lb) == la = lb \/ la = 1 \/ lb = 1

BroadcastLen(la, lb) == IF la = 1 THEN lb ELSE la

\* Element i of an array seen through broadcasting to a longer length.
Elem(s, i) == IF Len(s) = 1 THEN s[1] ELSE s[i]

\* One element of a binary ufunc: np.add, np.subtract or np.multiply.
Apply(op, a, b) ==
    CASE op = "add" -> RAdd(a, b)
      [] op = "subtract" -> RSub(a, b)
      [] op = "multiply" -> RMul(a, b)

\* x (op) y for a binary ufunc: scalars extend over arrays, arrays broadcast,
\* and incompatible shapes raise ValueError.  An operand that is already an
\* exception propagates.
Ufunc(op, x, y) ==
    IF IsError(x) THEN x
    ELSE IF IsError(y) THEN y
    ELSE IF x.kind = "scalar" /\ y.kind = "scalar" THEN Scalar(Apply(op, x.v, y.v))
    ELSE IF x.kind = "scalar"
         THEN Array([i \in 1..Len(y.v) |-> Apply(op, x.v, y.v[i])])
    ELSE IF y.kind = "scalar"
         THEN Array([i \in 1..Len(x.v) |-> Apply(op, x.v[i], y.v)])
    ELSE IF ~BroadcastOK(Len(x.v), Len(y.v)) THEN Raise("ValueError")
    ELSE Array([i \in 1..BroadcastLen(Len(x.v), Len(y.v)) |->
                    Apply(op, Elem(x.v, i), Elem(y.v, i))])

NpAdd(x, y) == Ufunc("add", x, y)
NpSub(x, y) == Ufunc("subtract", x, y)
NpMul(x, y) == Ufunc("multiply", x, y)

(* ------------------------------------------------------------------ *)
(* Python lists and numpy.poly1d                                        *)
(* ------------------------------------------------------------------ *)
\* A Python list of floats, as the nested sequence numpy converts: ndim is the
\* nesting depth, data the items.
PyList(s) == [ndim |-> 1, data |-> s]

\* lst[::-1]: a reversed copy; lst itself is left as it is.
Reversed(s) == [i \in 1..Len(s) |-> s[Len(s) + 1 - i]]

\* [lst]: a new list whose only item is lst.
Nest(l) == [ndim |-> l.ndim + 1, data |-> <<l.data>>]

RECURSIVE TrimZeros(_)
TrimZeros(s) ==
    IF s = <<>> THEN <<>>
    ELSE IF s[1].n = 0 THEN TrimZeros(Tail(s))
    ELSE s

\* np.poly1d(c): coefficients in decreasing powers; anything that is not 1-d
\* after atleast_1d raises ValueError("Polynomial must be 1d only.").
poly1d(c) ==
    IF c.ndim > 1 THEN Raise("ValueError")
    ELSE [kind |-> "poly1d",
          coeffs |-> IF TrimZeros(c.data) = <<>> THEN <<Int2Rat(0)>>
                     ELSE TrimZeros(c.data)]

\* np.polyval by Horner's rule: y = y * x + c for c in coeffs.
RECURSIVE Horner(_, _, _)
Horner(cs, x, y) ==
    IF cs = <<>> THEN y ELSE Horner(Tail(cs), x, RAdd(RMul(y, x), cs[1]))

\* p(x): the polynomial evaluated at a scalar or at every element of an array.
PolyCall(p, x) ==
    IF IsError(p) THEN p
    ELSE IF IsError(x) THEN x
    ELSE IF x.kind = "scalar" THEN Scalar(Horner(p.coeffs, x.v, Int2Rat(0)))
    ELSE Array([i \in 1..Len(x.v) |-> Horner(p.coeffs, x.v[i], Int2Rat(0))])

(* ------------------------------------------------------------------ *)
(* The calibrations                                                     *)
(* ------------------------------------------------------------------ *)
\* jiang_coeff = [-24.135, 6.1532, -0.37866, -0.147, -7.071]
JiangCoeffInit ==
    <<Dec(-24135, 3), Dec(61532, 4), Dec(-37866, 5), Dec(-147, 3), Dec(-7071, 3)>>

\* bian_coeff = [138.0430, -54.8284, 7.2954, -0.32293]
BianCoeffInit ==
    <<Dec(1380430, 4), Dec(-548284, 4), Dec(72954, 4), Dec(-32293, 5)>>

\* The coefficient list handed to np.poly1d in jiang_calibration
\* (Python index k is element k + 1 here).
JiangPolyArg(jc) == PyList(<<jc[3], jc[2], jc[1]>>)

\* Variant: the cross term subtracted, log(R23) = a + bx + cx^2 - d(e + x)y.
JiangValueMinus(jc, metal_det, lo32) ==
    LET p_jiang == poly1d(JiangPolyArg(jc))
        cross == NpMul(NpMul(Scalar(jc[4]), NpAdd(Scalar(jc[5]), metal_det)), lo32)
    IN  NpSub(PolyCall(p_jiang, metal_det), cross)

\* jiang_calibration(metal_det, lo32) with the module's coefficient list jc.
JiangValue(jc, metal_det, lo32) ==
    LET p_jiang == poly1d(JiangPolyArg(jc))
        cross == NpMul(NpMul(Scalar(jc[4]), NpAdd(Scalar(jc[5]), metal_det)), lo32)
    IN  NpAdd(PolyCall(p_jiang, metal_det), cross)

\* The argument of np.poly1d in bian_calibration_r23: [bian_coeff[::-1]].
BianPolyArg(bc) == Nest(PyList(Reversed(bc)))

\* bian_calibration_r23(metal_det) with the module's coefficient list bc.
BianR23Value(bc, metal_det) == PolyCall(poly1d(BianPolyArg(bc)), metal_det)

\* Variant: -1 * 0.59 in place of -1 / 0.59.
BianO32SlopeTimes == RMul(Int2Rat(-1), Dec(59, 2))

\* The slope (-1 / 0.59) of bian_calibration_o32.
BianO32Slope == RDiv(Int2Rat(-1), Dec(59, 2))

\* The zero point 8.54 of bian_calibration_o32.
BianO32Zero == Dec(854, 2)

\* bian_calibration_o32(metal_det)
BianO32Value(metal_det) ==
    NpMul(Scalar(BianO32Slope), NpSub(metal_det, Scalar(BianO32Zero)))

(* ------------------------------------------------------------------ *)
(* Table columns, selection and statistics                              *)
(* ------------------------------------------------------------------ *)
\* tab['name'].data: one column of a table kept as a sequence of rows.
Col(tab, name) == [i \in 1..Len(tab) |-> tab[i][name]]

\* np.where(mask)[0] for the mask "col is one of S": the 0-based positions,
\* from row k on, in increasing order.
RECURSIVE WhereIn(_, _, _)
WhereIn(col, S, k) ==
    IF k > Len(col) THEN <<>>
    ELSE IF col[k] \in S THEN <<k - 1>> \o WhereIn(col, S, k + 1)
    ELSE WhereIn(col, S, k + 1)

\* Variant: 1-based row numbers in place of 0-based positions.
WhereOneBased(col, x) ==
    [k \in 1..Len(WhereIn(col, {x}, 1)) |-> WhereIn(col, {x}, 1)[k] + 1]

\* np.where(col == x)[0]
Where(col, x) == WhereIn(col, {x}, 1)

\* Variant: detect = np.where(valid != 0.5)[0]
DetectNotLimit(valid) == WhereIn(valid, {x \in {valid[i] : i \in 1..Len(valid)} : x # Dec(5, 1)}, 1)

\* detect = np.where(valid == 1.0)[0]
Detect(valid) == Where(valid, Int2Rat(1))

\* Variant: rlimit = np.where(valid >= 0.5)[0]
RlimitAtLeast(valid) ==
    WhereIn(valid, {x \in {valid[i] : i \in 1..Len(valid)} : ~RLess(x, Dec(5, 1))}, 1)

\* Variant: rlimit = np.where((valid > 0) & (valid < 1.0))[0]
RlimitBetween(valid) ==
    WhereIn(valid, {x \in {valid[i] : i \in 1..Len(valid)} :
                        RLess(Int2Rat(0), x) /\ RLess(x, Int2Rat(1))}, 1)

\* rlimit = np.where(valid == 0.5)[0]
Rlimit(valid) == Where(valid, Dec(5, 1))

\* col[idx] with an integer index array: IndexError when an index is out of
\* bounds for the column.
InBounds(col, idx) == \A k \in 1..Len(idx) : idx[k] < Len(col)

Take(col, idx) == [k \in 1..Len(idx) |-> col[idx[k] + 1]]

\* A table value 10^q is kept as [pow10 |-> q]; np.log10 gives q back.
Log10(x) == x.pow10

Log10Col(col) == [i \in 1..Len(col) |-> Log10(col[i])]

\* np.concatenate((a, b, c), axis=None)
Concatenate(a, b, c) == a \o b \o c

RECURSIVE Insert(_, _)
Insert(x, s) ==
    IF s = <<>> THEN <<x>>
    ELSE IF RLess(s[1], x) THEN <<s[1]>> \o Insert(x, Tail(s))
    ELSE <<x>> \o s

RECURSIVE Sort(_)
Sort(s) == IF s = <<>> THEN <<>> ELSE Insert(s[1], Sort(Tail(s)))

RECURSIVE Sum(_)
Sum(s) == IF s = <<>> THEN Int2Rat(0) ELSE RAdd(s[1], Sum(Tail(s)))

\* The statistics of an empty array are nan (NumPy warns, it does not raise).
Nan == [kind |-> "nan"]

\* np.median: the middle of the sorted values, or the mean of the two middle ones.
Median(s) ==
    LET n == Len(s)
        t == Sort(s)
    IN  IF n = 0 THEN Nan
        ELSE IF n % 2 = 1 THEN t[(n + 1) \div 2]
        ELSE RDiv(RAdd(t[n \div 2], t[n \div 2 + 1]), Int2Rat(2))

\* np.average without weights: the arithmetic mean.
Average(s) == IF s = <<>> THEN Nan ELSE RDiv(Sum(s), Int2Rat(Len(s)))

\* Variant: the sample variance (ddof = 1), nan for a single value.
VarianceSample(s) ==
    LET mu == Average(s)
        dev == [i \in 1..Len(s) |-> RMul(RSub(s[i], mu), RSub(s[i], mu))]
    IN  IF Len(s) < 2 THEN Nan ELSE RDiv(Sum(dev), Int2Rat(Len(s) - 1))

\* The mean of the squared deviations from the mean (ddof = 0).
Variance(s) ==
    LET mu == Average(s)
        dev == [i \in 1..Len(s) |-> RMul(RSub(s[i], mu), RSub(s[i], mu))]
    IN  IF s = <<>> THEN Nan ELSE RDiv(Sum(dev), Int2Rat(Len(s)))

\* np.std: the square root of Variance, kept as [sqrt |-> variance].
Std(s) == IF s = <<>> THEN Nan ELSE [sqrt |-> Variance(s)]

(* ------------------------------------------------------------------ *)
(* jiang_comparison and bian_comparison                                 *)
(* ------------------------------------------------------------------ *)
\* A local that was not assigned before the routine stopped.
Unset == [kind |-> "unset"]

\* The points drawn with their bin label: ax.annotate(valid_id[aa], (x[aa], y[aa])).
Annotated(ids, xs, ys) ==
    [aa \in 1..Len(ids) |-> [id |-> ids[aa], x |-> xs[aa], y |-> ys[aa]]]

\* The locals of a comparison that stopped with exception e after the two
\* np.where lines.
Stopped(e, detect, rlimit) ==
    [exc |-> e, detect |-> detect, rlimit |-> rlimit,
     valid_id |-> Unset, lR23 |-> Unset, jR23_det |-> Unset,
     A_comparison |-> Unset, B_comparison |-> Unset, C_comparison |-> Unset,
     arr_sum |-> Unset, med0 |-> Unset, avg0 |-> Unset, sig0 |-> Unset,
     annotated |-> Unset, pages |-> 0, closed |-> FALSE]

\* The first exception among the values xs, or "none".
RECURSIVE FirstError(_)
FirstError(xs) ==
    IF xs = <<>> THEN "none"
    ELSE IF IsError(xs[1]) THEN xs[1].exc
    ELSE FirstError(Tail(xs))

\* jiang_comparison(fitspath, fitspath_ini) on the tables f, with the module's
\* coefficient list jc: the locals at the end of the routine.
JiangComparison(jc, f) ==
    LET temp_tab == f.temp_tab
        bin_id == Col(temp_tab, "bin_ID")
        lr23_comp == Col(temp_tab, "logR23_Composite")
        lo32_comp == Col(temp_tab, "logO32_Composite")
        zmetal == Col(temp_tab, "OH")
        valid == f.validation
        detect == Detect(valid)
        rlimit == Rlimit(valid)
        valid_id == Take(bin_id, detect)
        lR23 == Take(lr23_comp, detect)
        lO32 == Take(lo32_comp, detect)
        metal_det == Take(zmetal, detect)
        der_r23 == Log10Col(Col(f.deep2, "R23"))
        der_o32 == Log10Col(Col(f.deep2, "O32"))
        der_oh == Col(f.deep2, "OH")
        der_r23_mact == Log10Col(Col(f.mact, "R23"))
        der_o32_mact == Log10Col(Col(f.mact, "O32"))
        der_oh_mact == Col(f.mact, "OH")
        jR23_det == JiangValue(jc, Array(metal_det), Array(lO32))
        A_comparison == NpSub(jR23_det, Array(lR23))
        jR23_DEEP == JiangValue(jc, Array(der_oh), Array(der_o32))
        jR23_MACT == JiangValue(jc, Array(der_oh_mact), Array(der_o32_mact))
        B_comparison == NpSub(jR23_DEEP, Array(der_r23))
        C_comparison == NpSub(jR23_MACT, Array(der_r23_mact))
        err == FirstError(<<A_comparison, B_comparison, C_comparison>>)
        arr_sum == Concatenate(A_comparison.v, B_comparison.v, C_comparison.v)
    IN  IF ~InBounds(bin_id, detect) \/ ~InBounds(lr23_comp, rlimit)
        THEN Stopped("IndexError", detect, rlimit)
        ELSE IF err # "none" THEN Stopped(err, detect, rlimit)
        ELSE [exc |-> "none", detect |-> detect, rlimit |-> rlimit,
              valid_id |-> valid_id, lR23 |-> lR23, jR23_det |-> jR23_det.v,
              A_comparison |-> A_comparison.v, B_comparison |-> B_comparison.v,
              C_comparison |-> C_comparison.v,
              arr_sum |-> arr_sum, med0 |-> Median(arr_sum),
              avg0 |-> Average(arr_sum), sig0 |-> Std(arr_sum),
              annotated |-> Annotated(valid_id, lR23, jR23_det.v),
              pages |-> 1, closed |-> TRUE]

\* bian_comparison(fitspath, fitspath_ini) on the tables f, with the module's
\* coefficient list bc: the locals at the end of the routine (the R23 page;
\* the O32 page repeats the same steps with bian_calibration_o32).
BianComparison(bc, f) ==
    LET temp_tab == f.temp_tab
        bin_ID == Col(temp_tab, "bin_ID")
        lR23_comp == Col(temp_tab, "logR23_Composite")
        zmetal == Col(temp_tab, "OH")
        valid == f.validation
        detect == Detect(valid)
        rlimit == Rlimit(valid)
        valid_ID == Take(bin_ID, detect)
        lR23 == Take(lR23_comp, detect)
        metal_det == Take(zmetal, detect)
        deep2_r23 == Log10Col(Col(f.deep2, "R23"))
        deep2_oh == Col(f.deep2, "OH")
        der_R23_MACT == Log10Col(Col(f.mact, "R23"))
        der_OH_MACT == Col(f.mact, "OH")
        jR23_det == BianR23Value(bc, Array(metal_det))
        A_comparison == NpSub(jR23_det, Array(lR23))
        bR23_DEEP == BianR23Value(bc, Array(deep2_oh))
        bR23_MACT == BianR23Value(bc, Array(der_OH_MACT))
        B_comparison == NpSub(bR23_DEEP, Array(deep2_r23))
        C_comparison == NpSub(bR23_MACT, Array(der_R23_MACT))
        err == FirstError(<<jR23_det, A_comparison, B_comparison, C_comparison>>)
        arr_sum == Concatenate(A_comparison.v, B_comparison.v, C_comparison.v)
    IN  IF ~InBounds(bin_ID, detect)
        THEN Stopped("IndexError", detect, rlimit)
        ELSE IF err # "none" THEN Stopped(err, detect, rlimit)
        ELSE [exc |-> "none", detect |-> detect, rlimit |-> rlimit,
              valid_id |-> valid_ID, lR23 |-> lR23, jR23_det |-> jR23_det.v,
              A_comparison |-> A_comparison.v, B_comparison |-> B_comparison.v,
              C_comparison |-> C_comparison.v,
              arr_sum |-> arr_sum, med0 |-> Median(arr_sum),
              avg0 |-> Average(arr_sum), sig0 |-> Std(arr_sum),
              annotated |-> Annotated(valid_ID, lR23, jR23_det.v),
              pages |-> 2, closed |-> TRUE]

(* ------------------------------------------------------------------ *)
(* Inputs                                                               *)
(* ------------------------------------------------------------------ *)
SeqsUpTo(S, n) == UNION {[1..k -> S] : k \in 0..n}

\* NumPy scalars and 1-d arrays of at most n elements over the values S.
NpValues(S, n) == {Scalar(x) : x \in S} \cup {Array(s) : s \in SeqsUpTo(S, n)}

\* Values of the Detection column: the three categories and one value outside.
FlagVals == {Int2Rat(0), Dec(3, 1), Dec(5, 1), Int2Rat(1)}

\* Measurements of a composite bin: 12+log(O/H), log(O32), log(R23).
CompositeVals ==
    <<[OH |-> Int2Rat(8), logO32_Composite |-> Int2Rat(0),
       logR23_Composite |-> Dec(85636, 5)],
      [OH |-> Int2Rat(8), logO32_Composite |-> Int2Rat(1),
       logR23_Composite |-> Dec(-280203, 6)]>>

\* bin_derived_properties.tbl with n bins: bin_ID is the 1-based number of the
\* bin, and the measurements run through CompositeVals from offset o.
TempTab(n, o) ==
    [i \in 1..n |->
        LET m == CompositeVals[((i + o) % Len(CompositeVals)) + 1]
        IN  [bin_ID |-> i, OH |-> m.OH,
             logO32_Composite |-> m.logO32_Composite,
             logR23_Composite |-> m.logR23_Composite]]

TempTabs == {TempTab(n, o) : n \in 0..MaxRows, o \in 1..Len(CompositeVals)}

\* Rows of DEEP2_R23_O32_derived.tbl and MACT_R23_O32_derived.tbl.
Deep2RowA == [OH |-> Int2Rat(9), O32 |-> [pow10 |-> Int2Rat(0)],
              R23 |-> [pow10 |-> Dec(-142766, 5)]]
Deep2RowB == [OH |-> Int2Rat(8), O32 |-> [pow10 |-> Int2Rat(0)],
              R23 |-> [pow10 |-> Dec(-14364, 5)]]
MactRowA == [OH |-> Int2Rat(8), O32 |-> [pow10 |-> Int2Rat(1)],
             R23 |-> [pow10 |-> Dec(-280203, 6)]]

\* The two catalogues of individual spectra, as found on disk.
Catalogues ==
    {[deep2 |-> <<>>, mact |-> <<>>],
     [deep2 |-> <<Deep2RowA>>, mact |-> <<MactRowA>>],
     [deep2 |-> <<Deep2RowA, Deep2RowB>>, mact |-> <<MactRowA>>]}

\* A Detection column of five bins with every category in it.
FiveFlags == <<Int2Rat(1), Dec(5, 1), Int2Rat(0), Int2Rat(1), Dec(5, 1)>>

\* The tables on disk: the validation table and the derived-properties table
\* are separate files whose numbers of rows need not agree.
FileSets ==
    {[validation |-> v, temp_tab |-> t, deep2 |-> c.deep2, mact |-> c.mact] :
        v \in SeqsUpTo(FlagVals, MaxRows) \cup {FiveFlags},
        t \in TempTabs \cup {TempTab(Len(FiveFlags), 1)},
        c \in Catalogues}

MetalVals == {Int2Rat(8), Dec(85, 1), Int2Rat(9)}
Lo32Vals == {Dec(5, 1), Int2Rat(1)}
BianVals == {Int2Rat(8), Dec(854, 2), Int2Rat(9)}

JiangInputs ==
    {[metal_det |-> m, lo32 |-> l] :
        m \in NpValues(MetalVals, MaxLen), l \in NpValues(Lo32Vals, MaxLen)}

BianInputs == NpValues(BianVals, MaxLen)

DefaultFiles ==
    [validation |-> <<Int2Rat(1), Dec(5, 1)>>, temp_tab |-> TempTab(2, 1),
     deep2 |-> <<Deep2RowA>>, mact |-> <<MactRowA>>]

DefaultJiangIn ==
    [metal_det |-> Array(<<Int2Rat(8), Dec(85, 1)>>),
     lo32 |-> Array(<<Dec(5, 1), Int2Rat(1)>>)]

DefaultBianIn == Array(<<Int2Rat(8), Dec(854, 2)>>)

(* ------------------------------------------------------------------ *)
(* observing/find_nearby_bright_star.py                                 *)
(* ------------------------------------------------------------------ *)
\* ss.replace(old, ''): the string (a sequence of characters) without any
\* occurrence of the character old.
RECURSIVE Replace(_, _)
Replace(ss, old) ==
    IF ss = <<>> THEN <<>>
    ELSE IF ss[1] = old THEN Replace(Tail(ss), old)
    ELSE <<ss[1]>> \o Replace(Tail(ss), old)

\* prefix + ID + suffix: a file name, kept as its three parts.
Path(prefix, id, suffix) == [prefix |-> prefix, id |-> id, suffix |-> suffix]

\* os.path.exists(name)
Exists(d, name) == name \in DOMAIN d

\* The disk after name has been (over)written with content.
WriteFile(d, name, content) ==
    [n \in DOMAIN d \cup {name} |-> IF n = name THEN content ELSE d[n]]

FitsFile(hdus) == [kind |-> "fits", data |-> hdus]
AsciiFile(rows) == [kind |-> "ascii", data |-> rows]
PdfFile(pages) == [kind |-> "pdf", data |-> pages]

\* The loop of get_sdss_images from frame ff on: the first frame is written
\* with clobber=True, the later ones are appended to the file.
RECURSIVE WriteFrames(_, _, _, _)
WriteFrames(d, out_fits, imgs, ff) ==
    IF ff >= Len(imgs) THEN d
    ELSE IF ff = 0
         THEN WriteFrames(WriteFile(d, out_fits, FitsFile(<<imgs[1]>>)),
                          out_fits, imgs, 1)
    ELSE WriteFrames(WriteFile(d, out_fits,
                               FitsFile(Append(d[out_fits].data, imgs[ff + 1]))),
                     out_fits, imgs, ff + 1)

\* get_sdss_images(c0, out_fits, band) when SDSS.get_images answers imgs: the
\* disk afterwards and the value returned.  t_hdu is bound inside the loop
\* only, so return t_hdu raises UnboundLocalError when there is no frame.
GetSdssImages(d, out_fits, imgs) ==
    [disk |-> WriteFrames(d, out_fits, imgs, 0),
     exc |-> IF Len(imgs) = 0 THEN "UnboundLocalError" ELSE "none",
     t_hdu |-> IF Len(imgs) = 0 THEN <<>> ELSE <<imgs[Len(imgs)]>>]

\* plot_finding_chart(fitsfile, t_ID, band0, c0, c1, catalog, out_pdf): the
\* chart of the image in fitsfile, saved as out_pdf.
PlotFindingChart(d, fitsfile, t_ID, out_pdf) ==
    WriteFile(d, out_pdf,
              PdfFile(<<[fitsfile |-> fitsfile, image |-> d[fitsfile].data[1],
                         label |-> t_ID]>>))

\* The selection mask of one catalogue row.
Passes(catalog, row, mag_limit) ==
    IF catalog = "SDSS"
    THEN /\ row.mag <= mag_limit
         /\ row.mag # -9999
         /\ row.type = 6
         /\ row.mode = 1
    ELSE row.mag <= mag_limit

\* good = np.where(mask)[0], from row k on.
RECURSIVE Good(_, _, _, _)
Good(catalog, xid, mag_limit, k) ==
    IF k > Len(xid) THEN <<>>
    ELSE IF Passes(catalog, xid[k], mag_limit)
         THEN <<k - 1>> \o Good(catalog, xid, mag_limit, k + 1)
    ELSE Good(catalog, xid, mag_limit, k + 1)

\* Row order of xid.sort(['Dist(arcsec)', mag_filt]).
StarBefore(a, b) == a.sep < b.sep \/ (a.sep = b.sep /\ a.mag < b.mag)

RECURSIVE InsertStar(_, _)
InsertStar(x, s) ==
    IF s = <<>> THEN <<x>>
    ELSE IF StarBefore(x, s[1]) THEN <<x>> \o s
    ELSE <<s[1]>> \o InsertStar(x, Tail(s))

RECURSIVE SortStars(_)
SortStars(s) ==
    IF s = <<>> THEN <<>> ELSE InsertStar(s[Len(s)], SortStars(SubSeq(s, 1, Len(s) - 1)))

\* What one pass of main's loop did.
Entry(ii, n_good, table, fetched, chart, exc) ==
    [ii |-> ii, n_good |-> n_good, table |-> table, fetched |-> fetched,
     chart |-> chart, exc |-> exc]

\* One pass of the loop of main (lines 311-370) for source ii (0-based) with
\* the arguments and servers' answers e on the disk d: the disk afterwards
\* and the entry of the log.
MainPass(e, d, ii) ==
    LET t == e.infile[ii + 1]
        ID0 == Replace(t.ID, "*")
        known == e.catalog \in {"SDSS", "2MASS"}
        xid == IF e.catalog = "SDSS" THEN t.sdss ELSE t.twomass
        good == Good(e.catalog, xid, e.mag_limit, 1)
        out_table_file ==
            Path("out_path", ID0,
                 IF e.catalog = "SDSS" THEN ".SDSS.nearby.txt" ELSE ".2MASS.nearby.txt")
        sorted == SortStars(Take(xid, good))
        d1 == IF e.silent THEN d ELSE WriteFile(d, out_table_file, AsciiFile(sorted))
        out_fits == Path("finding_chart_fits_path", ID0, ".SDSS.fits.gz")
        out_pdf == Path("finding_chart_path", ID0, ".SDSS.pdf")
        fetch == ~Exists(d1, out_fits)
        got == GetSdssImages(d1, out_fits, t.imgs)
        d2 == IF fetch THEN got.disk ELSE d1
    IN  IF ~known
        THEN [disk |-> d, entry |-> Entry(ii, 0, FALSE, FALSE, FALSE, "UnboundLocalError")]
        ELSE IF Len(good) = 0
        THEN [disk |-> d, entry |-> Entry(ii, 0, FALSE, FALSE, FALSE, "none")]
        ELSE IF e.catalog # "SDSS"
        THEN [disk |-> d1,
              entry |-> Entry(ii, Len(good), ~e.silent, FALSE, FALSE, "none")]
        ELSE IF fetch /\ got.exc # "none"
        THEN [disk |-> d2,
              entry |-> Entry(ii, Len(good), ~e.silent, TRUE, FALSE, got.exc)]
        ELSE [disk |-> PlotFindingChart(d2, out_fits, ID0, out_pdf),
              entry |-> Entry(ii, Len(good), ~e.silent, fetch, TRUE, "none")]

(* ------------------------------------------------------------------ *)
(* observing/generate_model_spectrum.py                                 *)
(* ------------------------------------------------------------------ *)
\* x0 = np.arange(6300.0, 7000.0, 0.25) has 2800 points; the model keeps its
\* first GridLen points.
X0 == [j \in 1..GridLen |-> RAdd(Int2Rat(6300), RMul(Int2Rat(j - 1), Dec(25, 2)))]

s_lambda0 == <<"Ha", "NII", "SII", "SII">>
lambda0 == <<Dec(65628, 1), Dec(65836, 1), Dec(671642, 2), Dec(673078, 2)>>
scale0 == <<Int2Rat(1), Int2Rat(0), Dec(1, 1), Dec(1, 1)>>

\* gaussian_R(x_arr, x_lambda, R_spec) of locate_emission_lines: one value of
\* the line profile centred on x_lambda for every element of x_arr.
GaussianR(x_arr, x_lambda, R_spec) ==
    [j \in 1..Len(x_arr) |-> [x |-> x_arr[j], x_lambda |-> x_lambda, R_spec |-> R_spec]]

\* One addend of flux: s_temp * Ha_flux * scale, element by element.
Addend(s_temp, ha, scale) == [s_temp |-> s_temp, Ha_flux |-> ha, scale |-> scale]

\* One pass of the loop of main (lines 71-88) for row ii (0-based) of tab0 on
\* the disk d: the disk afterwards and the outcome.
SpectrumPass(e, d, ii) ==
    LET tab0 == e.tab0
        Ha_flux == [i \in 1..Len(tab0) |-> [pow10 |-> tab0[i].Ha_flux]]
        z1 == RAdd(Int2Rat(1), tab0[ii + 1].zspec)
        wave == [j \in 1..Len(X0) |-> RMul(z1, X0[j])]
        \* s_temp * Ha_flux multiplies the profile by the whole column Ha_flux:
        \* the two arrays broadcast, and flux += ... needs the product to fit
        \* the shape of flux.
        fitting == /\ BroadcastOK(Len(wave), Len(Ha_flux))
                   /\ BroadcastLen(Len(wave), Len(Ha_flux)) = Len(wave)
        scale(ll) == IF scale0[ll] # Int2Rat(0) THEN scale0[ll]
                     ELSE [pow10 |-> tab0[ii + 1].logNIIHa]
        s_temp(ll) == GaussianR(wave, RMul(lambda0[ll], z1), e.R_spec)
        flux == [j \in 1..Len(wave) |->
                    [ll \in 1..Len(lambda0) |->
                        Addend(s_temp(ll)[j], Elem(Ha_flux, j), scale(ll))]]
        outfile == Path("", tab0[ii + 1].ID, ".spec.txt")
        f_table == [j \in 1..Len(wave) |-> [wave |-> wave[j], flux |-> flux[j]]]
    IN  IF ~fitting
        THEN [disk |-> d, entry |-> [ii |-> ii, exc |-> "ValueError", outfile |-> <<>>]]
        ELSE [disk |-> WriteFile(d, outfile, AsciiFile(f_table)),
              entry |-> [ii |-> ii, exc |-> "none", outfile |-> <<outfile>>]]

(* ------------------------------------------------------------------ *)
(* Inputs of the observing scripts                                      *)
(* ------------------------------------------------------------------ *)
\* Rows of the catalogue servers' answers: magnitude in the selected filter,
\* SDSS type and mode, separation from the target in arcsec.
Star(objid, mag, sep) == [objid |-> objid, mag |-> mag, type |-> 6, mode |-> 1, sep |-> sep]
Galaxy == [objid |-> 21, mag |-> 18, type |-> 3, mode |-> 1, sep |-> 5]
Faint == [objid |-> 22, mag |-> 21, type |-> 6, mode |-> 1, sep |-> 6]
NoMag == [objid |-> 23, mag |-> -9999, type |-> 6, mode |-> 1, sep |-> 7]
Secondary == [objid |-> 24, mag |-> 18, type |-> 6, mode |-> 2, sep |-> 8]

Hdu(k) == [hdu |-> k]

\* Targets of the input file with what the servers answer for each: a target
\* with two stars and two frames, one with no star passing the selection, one
\* with a star and no frame, and one whose ID differs from the first by a '*'.
TargetA == [ID |-> <<"A">>, sdss |-> <<Star(1, 18, 40), Galaxy, Star(2, 19, 10)>>,
            twomass |-> <<Star(3, 15, 12)>>, imgs |-> <<Hdu(1), Hdu(2)>>]
TargetB == [ID |-> <<"B">>, sdss |-> <<Galaxy, Faint, NoMag, Secondary>>,
            twomass |-> <<Faint>>, imgs |-> <<Hdu(3)>>]
TargetC == [ID |-> <<"C">>, sdss |-> <<Star(4, 17, 20)>>,
            twomass |-> <<Star(5, 16, 20)>>, imgs |-> <<>>]
TargetAStar == [ID |-> <<"A", "*">>, sdss |-> <<NoMag, Star(6, 20, 30)>>,
                twomass |-> <<Faint, Star(7, 14, 3)>>, imgs |-> <<Hdu(4)>>]

Targets == {TargetA, TargetB, TargetC, TargetAStar}

NoDisk == <<>>

\* Image files left in finding_chart_fits_path by an earlier run.
OldFits(id) == WriteFile(NoDisk, Path("finding_chart_fits_path", id, ".SDSS.fits.gz"),
                         FitsFile(<<Hdu(0)>>))

Disks == {NoDisk, OldFits(<<"A">>), OldFits(<<"C">>)}

\* The arguments of find_nearby_bright_star.main with the servers' answers.
StarEnvs ==
    {[script |-> "find_nearby_bright_star", infile |-> t, catalog |-> c,
      silent |-> s, mag_limit |-> 20] :
        t \in SeqsUpTo(Targets, MaxTargets), c \in {"SDSS", "2MASS", "USNO"},
        s \in BOOLEAN}

\* Rows of tab0: ID, zspec, log of the H-alpha flux, log([NII]/Ha).
SourceRows ==
    {[ID |-> <<"S", "1">>, zspec |-> Int2Rat(1), Ha_flux |-> -16, logNIIHa |-> -1],
     [ID |-> <<"S", "2">>, zspec |-> Int2Rat(2), Ha_flux |-> -15, logNIIHa |-> -2],
     [ID |-> <<"S", "3">>, zspec |-> Dec(15, 1), Ha_flux |-> -17, logNIIHa |-> 0]}

\* The arguments of generate_model_spectrum.main.
SpectrumEnvs ==
    {[script |-> "generate_model_spectrum", tab0 |-> t, R_spec |-> 3000, silent |-> s] :
        t \in SeqsUpTo(SourceRows, MaxSources), s \in BOOLEAN}

NoEnv == [script |-> "none"]
Idle == [state |-> "idle", ii |-> 0]

\* No observing script has been started.
ObservingIdle ==
    /\ env = NoEnv
    /\ disk = NoDisk
    /\ pc = Idle
    /\ log = <<>>

(* ------------------------------------------------------------------ *)
(* The state machine                                                    *)
(* ------------------------------------------------------------------ *)
Init ==
    /\ jiang_coeff = JiangCoeffInit
    /\ bian_coeff = BianCoeffInit
    /\ call = [op |-> "none", out |-> [kind |-> "none"]]
    /\ ObservingIdle
    /\ \/ /\ files \in FileSets
          /\ jiang_in = DefaultJiangIn
          /\ bian_in = DefaultBianIn
       \/ /\ files = DefaultFiles
          /\ jiang_in \in JiangInputs
          /\ bian_in = DefaultBianIn
       \/ /\ files = DefaultFiles
          /\ jiang_in = DefaultJiangIn
          /\ bian_in \in BianInputs

\* jiang_calibration(metal_det, lo32)
jiang_calibration ==
    /\ call' = [op |-> "jiang_calibration",
                out |-> JiangValue(jiang_coeff, jiang_in.metal_det, jiang_in.lo32)]
    /\ UNCHANGED <<jiang_coeff, bian_coeff, files, jiang_in, bian_in>>
    /\ UNCHANGED observing

\* Variant: bian_coeff.reverse() in place of the copy bian_coeff[::-1].
bian_calibration_r23_inplace ==
    /\ call' = [op |-> "bian_calibration_r23",
                out |-> BianR23Value(bian_coeff, bian_in)]
    /\ bian_coeff' = Reversed(bian_coeff)
    /\ UNCHANGED <<jiang_coeff, files, jiang_in, bian_in>>
    /\ UNCHANGED observing

\* bian_calibration_r23(metal_det)
bian_calibration_r23 ==
    /\ call' = [op |-> "bian_calibration_r23",
                out |-> BianR23Value(bian_coeff, bian_in)]
    /\ UNCHANGED <<jiang_coeff, bian_coeff, files, jiang_in, bian_in>>
    /\ UNCHANGED observing

\* bian_calibration_o32(metal_det)
bian_calibration_o32 ==
    /\ call' = [op |-> "bian_calibration_o32", out |-> BianO32Value(bian_in)]
    /\ UNCHANGED <<jiang_coeff, bian_coeff, files, jiang_in, bian_in>>
    /\ UNCHANGED observing

\* jiang_comparison(fitspath, fitspath_ini)
jiang_comparison ==
    /\ call' = [op |-> "jiang_comparison", out |-> JiangComparison(jiang_coeff, files)]
    /\ UNCHANGED <<jiang_coeff, bian_coeff, files, jiang_in, bian_in>>
    /\ UNCHANGED observing

\* bian_comparison(fitspath, fitspath_ini)
bian_comparison ==
    /\ call' = [op |-> "bian_comparison", out |-> BianComparison(bian_coeff, files)]
    /\ UNCHANGED <<jiang_coeff, bian_coeff, files, jiang_in, bian_in>>
    /\ UNCHANGED observing

\* plotting_te_metal(fitspath, fitspath_ini, revised): the name indv_derived is
\* bound nowhere, so the routine stops with NameError after reading its two
\* tables and before the PDF is opened.
plotting_te_metal ==
    /\ \E revised \in BOOLEAN :
          call' = [op |-> "plotting_te_metal",
                   out |-> [exc |-> "NameError", revised |-> revised,
                            out_pdf |-> IF revised
                                        THEN "temperature_metallicity_revised.pdf"
                                        ELSE "temperature_metallicity_plots.pdf",
                            pages |-> <<>>, closed |-> FALSE]]
    /\ UNCHANGED <<jiang_coeff, bian_coeff, files, jiang_in, bian_in>>
    /\ UNCHANGED observing

Next ==
    \/ jiang_calibration
    \/ bian_calibration_r23
    \/ bian_calibration_o32
    \/ jiang_comparison
    \/ bian_comparison
    \/ plotting_te_metal

Spec == Init /\ [][Next]_vars

(* ------------------------------------------------------------------ *)
(* The observing scripts as state machines                              *)
(* ------------------------------------------------------------------ *)
InitObserving ==
    /\ jiang_coeff = JiangCoeffInit
    /\ bian_coeff = BianCoeffInit
    /\ files = DefaultFiles
    /\ jiang_in = DefaultJiangIn
    /\ bian_in = DefaultBianIn
    /\ call = [op |-> "none", out |-> [kind |-> "none"]]
    /\ pc = Idle
    /\ log = <<>>

\* find_nearby_bright_star.main up to its loop (lines 292-310).
find_nearby_bright_star_begin ==
    /\ env.script = "find_nearby_bright_star"
    /\ pc.state # "loop"
    /\ pc' = [state |-> "loop", ii |-> 0]
    /\ log' = <<>>
    /\ UNCHANGED <<env, disk, call>>
    /\ UNCHANGED plotting

\* One pass of the loop of find_nearby_bright_star.main (lines 311-370); an
\* exception ends main.
find_nearby_bright_star_pass ==
    /\ env.script = "find_nearby_bright_star"
    /\ pc.state = "loop"
    /\ pc.ii < Len(env.infile)
    /\ LET r == MainPass(env, disk, pc.ii)
       IN  /\ disk' = r.disk
           /\ log' = Append(log, r.entry)
           /\ pc' = IF r.entry.exc = "none"
                    THEN [state |-> "loop", ii |-> pc.ii + 1]
                    ELSE [state |-> "raised", ii |-> pc.ii]
    /\ UNCHANGED <<env, call>>
    /\ UNCHANGED plotting

\* The end of find_nearby_bright_star.main (lines 372-373).
find_nearby_bright_star_end ==
    /\ env.script = "find_nearby_bright_star"
    /\ pc.state = "loop"
    /\ pc.ii = Len(env.infile)
    /\ pc' = [state |-> "done", ii |-> pc.ii]
    /\ UNCHANGED <<env, disk, log, call>>
    /\ UNCHANGED plotting

\* get_sdss_images(c0, out_fits, band) called on its own for one of the targets.
get_sdss_images ==
    /\ env.script = "find_nearby_bright_star"
    /\ pc.state # "loop"
    /\ \E k \in 1..Len(env.infile) :
          LET t == env.infile[k]
              out_fits == Path("finding_chart_fits_path", Replace(t.ID, "*"),
                               ".SDSS.fits.gz")
              r == GetSdssImages(disk, out_fits, t.imgs)
          IN  /\ disk' = r.disk
              /\ call' = [op |-> "get_sdss_images",
                          out |-> [exc |-> r.exc, t_hdu |-> r.t_hdu,
                                   out_fits |-> out_fits, imgs |-> t.imgs,
                                   before |-> disk, after |-> r.disk]]
    /\ UNCHANGED <<env, pc, log>>
    /\ UNCHANGED plotting

InitStar ==
    /\ InitObserving
    /\ env \in StarEnvs
    /\ disk \in Disks

NextStar ==
    \/ find_nearby_bright_star_begin
    \/ find_nearby_bright_star_pass
    \/ find_nearby_bright_star_end
    \/ get_sdss_images

SpecStar == InitStar /\ [][NextStar]_vars

\* generate_model_spectrum.main up to its loop (lines 53-69).
generate_model_spectrum_begin ==
    /\ env.script = "generate_model_spectrum"
    /\ pc.state # "loop"
    /\ pc' = [state |-> "loop", ii |-> 0]
    /\ log' = <<>>
    /\ UNCHANGED <<env, disk, call>>
    /\ UNCHANGED plotting

\* One pass of the loop of generate_model_spectrum.main (lines 71-88).
generate_model_spectrum_pass ==
    /\ env.script = "generate_model_spectrum"
    /\ pc.state = "loop"
    /\ pc.ii < Len(env.tab0)
    /\ LET r == SpectrumPass(env, disk, pc.ii)
       IN  /\ disk' = r.disk
           /\ log' = Append(log, r.entry)
           /\ pc' = IF r.entry.exc = "none"
                    THEN [state |-> "loop", ii |-> pc.ii + 1]
                    ELSE [state |-> "raised", ii |-> pc.ii]
    /\ UNCHANGED <<env, call>>
    /\ UNCHANGED plotting

\* The end of generate_model_spectrum.main (lines 90-91).
generate_model_spectrum_end ==
    /\ env.script = "generate_model_spectrum"
    /\ pc.state = "loop"
    /\ pc.ii = Len(env.tab0)
    /\ pc' = [state |-> "done", ii |-> pc.ii]
    /\ UNCHANGED <<env, disk, log, call>>
    /\ UNCHANGED plotting

InitSpectrum ==
    /\ InitObserving
    /\ env \in SpectrumEnvs
    /\ disk = NoDisk

NextSpectrum ==
    \/ generate_model_spectrum_begin
    \/ generate_model_spectrum_pass
    \/ generate_model_spectrum_end

SpecSpectrum == InitSpectrum /\ [][NextSpectrum]_vars

(* ------------------------------------------------------------------ *)
(* Properties                                                           *)
(* ------------------------------------------------------------------ *)
Range(s) == {s[i] : i \in 1..Len(s)}

\* A value seen as a sequence of elements: a scalar is its one element.
Elems(x) == IF x.kind = "scalar" THEN <<x.v>> ELSE x.v

\* d0 + d1*m + d2*m^2 + d3*m^3 with the published Bian coefficients.
BianCubic(m) ==
    RAdd(RAdd(Dec(1380430, 4), RMul(Dec(-548284, 4), m)),
         RAdd(RMul(Dec(72954, 4), RMul(m, m)),
              RMul(Dec(-32293, 5), RMul(m, RMul(m, m)))))

\* C1: bian_calibration_r23 returns, for every metallicity input (a scalar or
\* each element of an array), the cubic d0 + d1*m + d2*m^2 + d3*m^3, as a value
\* of the input's shape, and does not fail.
C1_BianR23ReturnsCubic ==
    call.op = "bian_calibration_r23" =>
        /\ ~IsError(call.out)
        /\ Shape(call.out) = Shape(bian_in)
        /\ \A i \in 1..Len(Elems(bian_in)) :
              Elems(call.out)[i] = BianCubic(Elems(bian_in)[i])

\* c0 + c1*m + c2*m^2 + c3*(c4 + m)*log_o32 with the published Jiang coefficients.
JiangFormula(m, l) ==
    RAdd(RAdd(Dec(-24135, 3), RMul(Dec(61532, 4), m)),
         RAdd(RMul(Dec(-37866, 5), RMul(m, m)),
              RMul(RMul(Dec(-147, 3), RAdd(Dec(-7071, 3), m)), l)))

\* Both arguments have the same shape: two scalars or two arrays of one length.
Aligned(a, b) == a.kind = b.kind /\ Shape(a) = Shape(b)

C3_BianO32Linear ==
    call.op = "bian_calibration_o32" =>
        LET m == Elems(bian_in)
            r == Elems(call.out)
        IN  /\ ~IsError(call.out)
            /\ Shape(call.out) = Shape(bian_in)
            /\ \A i \in 1..Len(m) :
                  /\ r[i] = RDiv(RNeg(RSub(m[i], Dec(854, 2))), Dec(59, 2))
                  /\ (m[i] = Dec(854, 2) => r[i] = Int2Rat(0))
            /\ \A i, j \in 1..Len(m) :
                  RMul(RSub(r[i], r[j]), Dec(59, 2)) = RNeg(RSub(m[i], m[j]))

\* Witness of C3: the call at the zero point of the relation.
C3_Witness ==
    /\ call.op = "bian_calibration_o32"
    /\ bian_in = Array(<<Int2Rat(8), Dec(854, 2)>>)
    /\ call.out = Array(<<Rat(54, 59), Int2Rat(0)>>)

IsComparison == call.op \in {"jiang_comparison", "bian_comparison"}

\* The 1-based rows of the Detection column holding flag x.
RowsWith(valid, x) == {i \in 1..Len(valid) : valid[i] = x}

\* C4: the selection puts row index i in detect if and only if flag[i] = 1.0 and
\* in rlimit if and only if flag[i] = 0.5; a row with flag 0.0 is in neither
\* (flags [1.0, 0.5, 0.0, 1.0, 0.5] give detect {0, 3} and rlimit {1, 4}).
C4_FilterPartition ==
    IsComparison =>
        LET valid == files.validation
            det == Range(call.out.detect)
            rl == Range(call.out.rlimit)
        IN  /\ det \cup rl \subseteq 0..(Len(valid) - 1)
            /\ \A i \in 0..(Len(valid) - 1) :
                  /\ i \in det <=> valid[i + 1] = Int2Rat(1)
                  /\ i \in rl <=> valid[i + 1] = Dec(5, 1)
                  /\ valid[i + 1] = Int2Rat(0) => i \notin det \cup rl
            /\ valid = FiveFlags => (det = {0, 3} /\ rl = {1, 4})

\* Witness of C4: the five-bin column has been partitioned.
C4_Witness ==
    /\ call.op = "jiang_comparison"
    /\ files.validation = FiveFlags
    /\ call.out.detect = <<0, 3>>
    /\ call.out.rlimit = <<1, 4>>

Recognised == {Int2Rat(0), Dec(5, 1), Int2Rat(1)}

HasInvalid(valid) == \E i \in 1..Len(valid) : valid[i] \notin Recognised

\* The tables with every unrecognised flag replaced by 0.0.
Zeroed(f) ==
    [f EXCEPT !.validation =
        [i \in 1..Len(f.validation) |->
            IF f.validation[i] \in Recognised THEN f.validation[i] ELSE Int2Rat(0)]]

\* C5 as stated: a Detection column holding a value outside {0.0, 0.5, 1.0}
\* makes the selection fail with InvalidCategoryError, and nothing is compared.
C5_InvalidFlagRaises ==
    (IsComparison /\ HasInvalid(files.validation)) =>
        /\ call.out.exc = "InvalidCategoryError"
        /\ call.out.annotated = Unset

\* C5 as amended: a value outside {0.0, 0.5, 1.0} raises no error of its own;
\* its row goes to neither detect nor rlimit, and the routine ends exactly as
\* it does on the same tables with that flag set to 0.0.
C5_InvalidFlagSilentlyExcluded ==
    (IsComparison /\ HasInvalid(files.validation)) =>
        LET valid == files.validation
            det == Range(call.out.detect)
            rl == Range(call.out.rlimit)
        IN  /\ call.out.exc # "InvalidCategoryError"
            /\ \A i \in 1..Len(valid) :
                  valid[i] \notin Recognised => (i - 1) \notin det \cup rl
            /\ call.out = IF call.op = "jiang_comparison"
                          THEN JiangComparison(JiangCoeffInit, Zeroed(files))
                          ELSE BianComparison(BianCoeffInit, Zeroed(files))

\* Witness of C5: the column [1.0, 0.3] went through jiang_comparison.
C5_Witness ==
    /\ call.op = "jiang_comparison"
    /\ files.validation = <<Int2Rat(1), Dec(3, 1)>>
    /\ call.out.exc = "none"
    /\ call.out.detect = <<0>>
    /\ call.out.rlimit = <<>>

\* The predicted value the routine op compares with the observed log(R23).
Predicted(op, m, l) == IF op = "jiang_comparison" THEN JiangFormula(m, l) ELSE BianCubic(m)

\* predicted - observed of the detected bins, row by row from row k on.
RECURSIVE CompositeResiduals(_, _, _)
CompositeResiduals(op, f, k) ==
    IF k > Len(f.validation) THEN <<>>
    ELSE IF f.validation[k] = Int2Rat(1)
         THEN <<RSub(Predicted(op, f.temp_tab[k].OH, f.temp_tab[k].logO32_Composite),
                     f.temp_tab[k].logR23_Composite)>>
              \o CompositeResiduals(op, f, k + 1)
    ELSE CompositeResiduals(op, f, k + 1)

\* predicted - observed of every row of a catalogue of individual spectra.
CatalogueResiduals(op, t) ==
    [i \in 1..Len(t) |-> RSub(Predicted(op, t[i].OH, t[i].O32.pow10), t[i].R23.pow10)]

\* The number of elements of s below, and above, the value x.
Below(s, x) == Cardinality({i \in 1..Len(s) : RLess(s[i], x)})
Above(s, x) == Cardinality({i \in 1..Len(s) : RLess(x, s[i])})

RECURSIVE SumOfSquares(_)
SumOfSquares(s) ==
    IF s = <<>> THEN Int2Rat(0) ELSE RAdd(RMul(s[1], s[1]), SumOfSquares(Tail(s)))

\* C6: median, mean and population standard deviation (denominator N) are
\* taken over the one pooled sequence that concatenates the residuals
\* predicted - observed of every dataset, each residual once, and not over
\* per-dataset averages ([0,1,2] and [1] pool to [0,1,2,1]: median 1, mean 1,
\* variance 1/2).
C6_PooledStatistics ==
    (IsComparison /\ call.out.exc = "none") =>
        LET o == call.out
            pooled == o.arr_sum
            N == Len(pooled)
            NR == Int2Rat(N)
        IN  /\ pooled = CompositeResiduals(call.op, files, 1)
                            \o CatalogueResiduals(call.op, files.deep2)
                            \o CatalogueResiduals(call.op, files.mact)
            /\ N = Cardinality(RowsWith(files.validation, Int2Rat(1)))
                     + Len(files.deep2) + Len(files.mact)
            /\ N = 0 => (o.med0 = Nan /\ o.avg0 = Nan /\ o.sig0 = Nan)
            /\ N > 0 =>
                  /\ RMul(o.avg0, NR) = Sum(pooled)
                  /\ 2 * Below(pooled, o.med0) <= N
                  /\ 2 * Above(pooled, o.med0) <= N
                  /\ \E i, j \in 1..N :
                        RMul(Int2Rat(2), o.med0) = RAdd(pooled[i], pooled[j])
                  /\ RMul(o.sig0.sqrt, NR)
                        = RSub(SumOfSquares(pooled), RMul(NR, RMul(o.avg0, o.avg0)))
            /\ pooled = <<Int2Rat(0), Int2Rat(1), Int2Rat(2), Int2Rat(1)>> =>
                  /\ o.med0 = Int2Rat(1)
                  /\ o.avg0 = Int2Rat(1)
                  /\ o.sig0 = [sqrt |-> Rat(1, 2)]

\* Witness of C6: residuals [0, 1] of two detected bins, [2] of DEEP2 and [1]
\* of MACT were pooled.
C6_Witness ==
    /\ call.op = "jiang_comparison"
    /\ call.out.exc = "none"
    /\ call.out.A_comparison = <<Int2Rat(0), Int2Rat(1)>>
    /\ call.out.B_comparison = <<Int2Rat(2)>>
    /\ call.out.C_comparison = <<Int2Rat(1)>>
    /\ call.out.arr_sum = <<Int2Rat(0), Int2Rat(1), Int2Rat(2), Int2Rat(1)>>
    /\ call.out.med0 = Int2Rat(1)
    /\ call.out.avg0 = Int2Rat(1)
    /\ call.out.sig0 = [sqrt |-> Rat(1, 2)]

BothArrays == jiang_in.metal_det.kind = "array" /\ jiang_in.lo32.kind = "array"

C9_ExcludedRowsDoNotContribute ==
    IsComparison =>
        LET valid == files.validation
            o == call.out
            nd == Cardinality(RowsWith(valid, Int2Rat(1)))
        IN  /\ \A k \in 1..Len(o.detect) :
                  /\ o.detect[k] + 1 \in 1..Len(valid)
                  /\ valid[o.detect[k] + 1] \in {Int2Rat(1), Dec(5, 1)}
            /\ o.exc = "none" =>
                  /\ Len(o.jR23_det) = nd
                  /\ Len(o.A_comparison) = nd
                  /\ Len(o.annotated) = nd
                  /\ \A k \in 1..nd :
                        /\ valid[o.annotated[k].id] # Int2Rat(0)
                        /\ o.annotated[k].x = files.temp_tab[o.annotated[k].id].logR23_Composite
                        /\ o.annotated[k].y = o.jR23_det[k]
                        /\ o.A_comparison[k] = RSub(o.jR23_det[k], o.annotated[k].x)
                  /\ Len(o.arr_sum) = nd + Len(files.deep2) + Len(files.mact)

\* Witness of C9: of the bins flagged [0.0, 1.0] only bin 2 was compared.
C9_Witness ==
    /\ call.op = "jiang_comparison"
    /\ call.out.exc = "none"
    /\ files.validation = <<Int2Rat(0), Int2Rat(1)>>
    /\ Len(call.out.annotated) = 1
    /\ call.out.annotated[1].id = 2
    /\ Len(call.out.A_comparison) = 1

Calibrations ==
    {"jiang_calibration", "bian_calibration_r23", "bian_calibration_o32",
     "jiang_comparison", "bian_comparison"}

\* C10: no call changes jiang_coeff, bian_coeff, an argument array or a table
\* column, and a call repeated on the same inputs gives the same output.
C10_NoSideEffects ==
    [][/\ jiang_coeff' = jiang_coeff
       /\ bian_coeff' = bian_coeff
       /\ files' = files
       /\ jiang_in' = jiang_in
       /\ bian_in' = bian_in
       /\ (call'.op = call.op /\ call.op \in Calibrations) => call'.out = call.out]_vars

\* Witness of C10: after a call that reads bian_coeff the coefficient lists
\* hold their initial values.
C10_Witness ==
    /\ call.op = "bian_calibration_r23"
    /\ jiang_coeff = JiangCoeffInit
    /\ bian_coeff = BianCoeffInit
    /\ bian_in = DefaultBianIn

(* ------------------------------------------------------------------ *)
(* The contract of the selection and the alignment of the tables        *)
(* ------------------------------------------------------------------ *)
StrictlyIncreasing(s) == \A j, k \in 1..Len(s) : j < k => s[j] < s[k]

\* C11: the two index sets of the selection are disjoint, hold only row indices
\* of the flag column, and list them in strictly increasing row order, so that
\* ID[set[k]] and value[set[k]] are taken from the same table row for every k.
C11_IndexSetsContract ==
    IsComparison =>
        LET o == call.out
            valid == files.validation
            bin_id == Col(files.temp_tab, "bin_ID")
            lr23_comp == Col(files.temp_tab, "logR23_Composite")
        IN  /\ Range(o.detect) \cap Range(o.rlimit) = {}
            /\ \A s \in {o.detect, o.rlimit} :
                  /\ \A k \in 1..Len(s) : s[k] \in 0..(Len(valid) - 1)
                  /\ StrictlyIncreasing(s)
            /\ o.exc = "none" =>
                  /\ Len(o.valid_id) = Len(o.detect)
                  /\ Len(o.lR23) = Len(o.detect)
                  /\ \A k \in 1..Len(o.detect) :
                        /\ o.valid_id[k] = bin_id[o.detect[k] + 1]
                        /\ o.lR23[k] = lr23_comp[o.detect[k] + 1]
                        /\ o.annotated[k].id = bin_id[o.detect[k] + 1]
                        /\ o.annotated[k].x = lr23_comp[o.detect[k] + 1]

\* Witness of C11: five bins, two detections and two limits, labelled by the
\* bins they were taken from.
C11_Witness ==
    /\ call.op = "jiang_comparison"
    /\ call.out.exc = "none"
    /\ files.validation = FiveFlags
    /\ call.out.rlimit = <<1, 4>>
    /\ call.out.valid_id = <<1, 4>>

\* C12 as stated: in both comparisons every index selected from the flag column
\* is a row of the derived-properties table, and every composite residual is
\* the calibration of the metallicity (and log(O32)) of the row flagged 1.0
\* minus the log(R23) of that same row.
C12_ResidualsRowAligned ==
    IsComparison =>
        LET o == call.out
            t == files.temp_tab
        IN  /\ \A k \in 1..Len(o.detect) : o.detect[k] < Len(t)
            /\ \A k \in 1..Len(o.rlimit) : o.rlimit[k] < Len(t)
            /\ o.exc = "none"
            /\ Len(o.A_comparison) = Len(o.detect)
            /\ \A k \in 1..Len(o.detect) :
                  LET row == t[o.detect[k] + 1]
                  IN  /\ files.validation[o.detect[k] + 1] = Int2Rat(1)
                      /\ o.A_comparison[k] =
                            RSub(Predicted(call.op, row.OH, row.logO32_Composite),
                                 row.logR23_Composite)

\* C15 as stated: plotting_te_metal runs to completion and writes one PDF of
\* five pages in the given order, closed, named after the revised keyword.
C15_PlottingWritesFivePages ==
    call.op = "plotting_te_metal" =>
        /\ call.out.exc = "none"
        /\ call.out.pages = <<"R23 vs O32", "T_e vs R23", "T_e vs O32",
                              "R23 vs metallicity", "O32 vs metallicity">>
        /\ call.out.closed
        /\ call.out.out_pdf = IF call.out.revised
                              THEN "temperature_metallicity_revised.pdf"
                              ELSE "temperature_metallicity_plots.pdf"

(* ------------------------------------------------------------------ *)
(* The observing scripts                                                *)
(* ------------------------------------------------------------------ *)
InStar == env.script = "find_nearby_bright_star"

\* The target of entry e of the log, and the files main names after it.
TargetOf(e) == env.infile[e.ii + 1]
TableOf(e) ==
    Path("out_path", Replace(TargetOf(e).ID, "*"),
         IF env.catalog = "SDSS" THEN ".SDSS.nearby.txt" ELSE ".2MASS.nearby.txt")
FitsOf(e) == Path("finding_chart_fits_path", Replace(TargetOf(e).ID, "*"), ".SDSS.fits.gz")
ChartOf(e) == Path("finding_chart_path", Replace(TargetOf(e).ID, "*"), ".SDSS.pdf")

\* A step that is one pass of the loop of find_nearby_bright_star.main.
StarPassStep == InStar /\ pc.state = "loop" /\ Len(log') = Len(log) + 1

\* C13 as stated: for every target with at least one star passing the
\* selection main writes the ASCII table of those stars, sorted, whatever the
\* value of silent.
C13_TableWrittenForEverySilent ==
    InStar =>
        \A k \in 1..Len(log) :
            log[k].n_good > 0 =>
                /\ log[k].table
                /\ Exists(disk, TableOf(log[k]))
                /\ Len(disk[TableOf(log[k])].data) > 0

\* C14 as stated: a target with an empty [good] leaves no table, no image and
\* no chart and raises nothing, and once main has ended after such a target
\* every target has been processed exactly once, in input order.
C14_EmptyGoodIsSkipped ==
    (InStar /\ \E k \in 1..Len(log) : log[k].n_good = 0 /\ log[k].exc = "none") =>
        /\ \A k \in 1..Len(log) :
              log[k].n_good = 0 =>
                  /\ ~log[k].table /\ ~log[k].fetched /\ ~log[k].chart
                  /\ log[k].exc = "none"
        /\ \A k \in 1..Len(log) : log[k].ii = k - 1
        /\ pc.state \in {"done", "raised"} => Len(log) = Len(env.infile)

\* C16 as stated: with catalog 'SDSS', for a target with a selected star the
\* image is fetched exactly when its .SDSS.fits.gz file does not exist yet, an
\* existing file is left as it is, and the chart is plotted from that file in
\* both cases; with catalog '2MASS' nothing is fetched and nothing plotted.
C16_FetchOnlyIfAbsent ==
    [][StarPassStep =>
        LET e == log'[Len(log')]
        IN  /\ (env.catalog = "SDSS" /\ e.n_good > 0) =>
                  /\ e.fetched <=> ~Exists(disk, FitsOf(e))
                  /\ Exists(disk, FitsOf(e)) => disk'[FitsOf(e)] = disk[FitsOf(e)]
                  /\ e.chart
                  /\ Exists(disk', ChartOf(e))
                  /\ disk'[ChartOf(e)].data[1].fitsfile = FitsOf(e)
            /\ env.catalog = "2MASS" =>
                  /\ ~e.fetched /\ ~e.chart
                  /\ DOMAIN disk' \subseteq DOMAIN disk \cup {TableOf(e)}]_vars

\* C17 as stated: for n >= 1 frames get_sdss_images leaves out_fits holding
\* exactly those frames in query order and returns the last frame's HDU; for
\* no frame it writes nothing and returns normally.
C17_FramesWrittenInOrder ==
    call.op = "get_sdss_images" =>
        LET o == call.out
            n == Len(o.imgs)
        IN  /\ o.exc = "none"
            /\ n >= 1 => /\ Exists(o.after, o.out_fits)
                         /\ o.after[o.out_fits].data = o.imgs
                         /\ o.t_hdu = <<o.imgs[n]>>
            /\ n = 0 => o.after = o.before

\* The factor of line ll in the spectrum of a row: 1.0 for Ha,
\* 10**logNIIHa[ii] for NII and 0.1 for each SII line.
LineFactor(row, ll) ==
    CASE ll = 1 -> Int2Rat(1)
      [] ll = 2 -> [pow10 |-> row.logNIIHa]
      [] OTHER -> Dec(1, 1)

\* C18 as stated: once generate_model_spectrum.main has ended, every row of
\* tab0 has its file ID + '.spec.txt'; its flux column is as long as its
\* wavelength column, and each flux value is the sum of the four line
\* profiles times that row's own H-alpha flux times the line's factor.
C18_OneSpectrumPerRow ==
    (env.script = "generate_model_spectrum" /\ pc.state \in {"done", "raised"}) =>
        /\ pc.state = "done"
        /\ DOMAIN disk = {Path("", env.tab0[i].ID, ".spec.txt") : i \in 1..Len(env.tab0)}
        /\ \A i \in 1..Len(env.tab0) :
              LET row == env.tab0[i]
                  spec == disk[Path("", row.ID, ".spec.txt")].data
                  last == \A h \in (i + 1)..Len(env.tab0) : env.tab0[h].ID # row.ID
              IN  last =>
                    /\ Len(spec) = GridLen
                    /\ \A j \in 1..Len(spec) :
                          /\ Len(spec[j].flux) = Len(s_lambda0)
                          /\ \A ll \in 1..Len(spec[j].flux) :
                                /\ spec[j].flux[ll].Ha_flux = [pow10 |-> row.Ha_flux]
                                /\ spec[j].flux[ll].scale = LineFactor(row, ll)
====
